---------------------------- MODULE Spec2Model ----------------------------
(***************************************************************************)
(* The coordination board: the Authority (server.mjs, the Socket.IO        *)
(* handlers over the in-memory boardState) and the Replicas (the React     *)
(* client, useRealtimeSync and the CRUD functions of App).                 *)
(*                                                                         *)
(* Spec        the Authority alone: any connected socket may emit any      *)
(*             payload of the four mutation events or board:pull; the      *)
(*             handlers run one at a time, in arrival order.               *)
(* SpecSync    the replicas run the shipped client: they connect, pull,    *)
(*             perform user actions and apply what the Authority sends.    *)
(* SpecListen  one replica connects and only listens while another socket  *)
(*             mutates the board.                                          *)
(* SpecSeeded  other clients add the items; the replicas patch, delete and *)
(*             move the cards they are shown.                              *)
(* SpecReconnect  SpecListen, and the listening replica may lose its       *)
(*             connection and reconnect.                                   *)
(* SpecDrop    SpecSeeded with one acting replica, and the listening       *)
(*             replica may lose its connection and reconnect.              *)
(* SpecSolo    one replica acts alone and the Authority answers it.        *)
(* SpecAuth    users log in and out, admins edit the access list, and any  *)
(*             socket emits mutations.                                     *)
(* SpecAccess  the HTTP API alone: logins, logouts and /access requests    *)
(*             with any cookie.                                            *)
(* SpecCard    a card is rendered with a pilot and a center estimate.      *)
(* SpecTime    diffMinutesHHMM is called with a typed text.                *)
(***************************************************************************)
EXTENDS Integers, Sequences, FiniteSets, TLC

(***************************************************************************)
(* Bounds                                                                  *)
(***************************************************************************)
\* length of the longest text typed into a time field
MaxChars == 5

\* number of requests the Authority handles in one behaviour
MaxReqs == 3
\* the latest instant: a clock reads 1 (the instant the Authority starts)
\* or MaxTime
MaxTime == 2
\* number of user actions the replicas perform in one behaviour
MaxOps == 2
\* number of in-lane reorderings the replicas perform in one behaviour
MaxReorders == 1
\* number of requests of other sockets handled while replicas only listen
MaxListenReqs == 2
\* number of times a replica loses its connection
MaxGaps == 1
\* number of requests handled while sessions and lists change
MaxAuthReqs == 1

(***************************************************************************)
(* JavaScript values                                                       *)
(***************************************************************************)
\* the value of a missing property or payload field
Undefined == [undefined |-> TRUE]
\* what a property inherited from Object.prototype evaluates to
ProtoFn == [function |-> "Object"]
\* names every plain object ({} literal, JSON.parse result) inherits
ProtoKeys == {"constructor"}

\* a plain object is a function from its own keys; obj[key] in JavaScript
Get(obj, key) ==
  IF key \in DOMAIN obj THEN obj[key]
  ELSE IF key \in ProtoKeys THEN ProtoFn
  ELSE Undefined

\* !!v for the values stored in objects
Truthy(v) == v # Undefined

\* obj[key] = v
Put(obj, key, v) ==
  [k \in (DOMAIN obj) \cup {key} |-> IF k = key THEN v ELSE obj[k]]

\* delete obj[key]
Delete(obj, key) == [k \in (DOMAIN obj) \ {key} |-> obj[k]]

\* the own enumerable properties an object spread {...v} copies
Own(v) == IF v = Undefined \/ v = ProtoFn THEN [k \in {} |-> ""] ELSE v

\* { ...a, ...b }
Spread(a, b) ==
  [k \in (DOMAIN Own(a)) \cup (DOMAIN Own(b)) |->
     IF k \in DOMAIN Own(b) THEN Own(b)[k] ELSE Own(a)[k]]

\* item.id, "" when the property is missing
IdOf(item) == IF "id" \in DOMAIN item THEN item.id ELSE ""

\* arr.filter((x) => x !== id)
Filter(arr, id) == SelectSeq(arr, LAMBDA x : x # id)

\* arr.splice(i, 0, x): the start index is clamped into 0..length, a
\* negative one counts from the end
Splice(arr, i, x) ==
  LET n == Len(arr)
      start == IF i < 0 THEN (IF n + i < 0 THEN 0 ELSE n + i)
               ELSE (IF i > n THEN n ELSE i)
  IN SubSeq(arr, 1, start) \o <<x>> \o SubSeq(arr, start + 1, n)

\* arr.unshift(x)
Unshift(arr, x) == <<x>> \o arr

\* the payload's index is {} when absent and {i} when it is the number i
\* if (typeof index === 'number') splice(index, 0, id) else unshift(id)
InsertAt(arr, index, x) ==
  IF index # {} THEN Splice(arr, CHOOSE i \in index : TRUE, x)
  ELSE Unshift(arr, x)


(***************************************************************************)
(* The board                                                               *)
(***************************************************************************)
LaneKeys == {"Unassigned", "New York", "Curacao", "Piarco", "Maiquetia"}

\* the values Date.now() can return
Times == {1, MaxTime}

\* the values of mtime || Date.now(); a missing or zero mtime is 0
Stamp(mtime) == IF mtime # 0 THEN {mtime} ELSE Times

NoItems == [k \in {} |-> Undefined]

\* let boardState = { lanes: {...}, items: {}, lastUpdated: Date.now() }
InitialBoard(now) ==
  [lanes |-> [l \in LaneKeys |-> <<>>], items |-> NoItems, lastUpdated |-> now]

\* boardState.lanes[lane] is an array
LaneKnown(bs, lane) == lane \in DOMAIN bs.lanes

(***************************************************************************)
(* The Authority's handlers.  Each yields the new boardState, the message  *)
(* passed to socket.emit (reply) and to socket.broadcast.emit (bcast).     *)
(***************************************************************************)
Nothing(bs) == [bs |-> bs, reply |-> {}, bcast |-> {}]

\* board:pull that also stamps the board
BoardPull_Stamping(bs) ==
  LET touched == [bs EXCEPT !.lastUpdated = bs.lastUpdated + 1]
  IN [bs |-> touched, reply |-> {[type |-> "board:state", state |-> touched]},
      bcast |-> {}]

\* socket.on('board:pull')
BoardPull(bs) ==
  [bs |-> bs, reply |-> {[type |-> "board:state", state |-> bs]}, bcast |-> {}]

\* item:add that does not test the lane and starts a list for a lane it does
\* not know
ItemAdd_CreatingLane(bs, p, ts) ==
  IF ~Truthy(p.item) \/ IdOf(p.item) = "" \/ p.lane = ""
  THEN Nothing(bs)
  ELSE
    LET id == IdOf(p.item)
        items == Put(bs.items, id, p.item)
        arr == IF LaneKnown(bs, p.lane) THEN bs.lanes[p.lane] ELSE <<>>
        laneArr == InsertAt(Filter(arr, id), p.index, id)
        lanes == Put(bs.lanes, p.lane, laneArr)
    IN [bs |-> [lanes |-> lanes, items |-> items, lastUpdated |-> ts],
        reply |-> {},
        bcast |-> {[type |-> "item:add:apply", item |-> p.item, lane |-> p.lane,
                    index |-> p.index, mtime |-> ts]}]

\* socket.on('item:add')
ItemAdd(bs, p, ts) ==
  IF ~Truthy(p.item) \/ IdOf(p.item) = "" \/ p.lane = "" \/ ~LaneKnown(bs, p.lane)
  THEN Nothing(bs)
  ELSE
    LET id == IdOf(p.item)
        items == Put(bs.items, id, p.item)
        laneArr == InsertAt(Filter(bs.lanes[p.lane], id), p.index, id)
        lanes == [bs.lanes EXCEPT ![p.lane] = laneArr]
    IN [bs |-> [lanes |-> lanes, items |-> items, lastUpdated |-> ts],
        reply |-> {},
        bcast |-> {[type |-> "item:add:apply", item |-> p.item, lane |-> p.lane,
                    index |-> p.index, mtime |-> ts]}]

\* item:delete that removes the item but leaves the lanes as they are
ItemDelete_KeepingLanes(bs, p, ts) ==
  IF p.id = "" \/ ~Truthy(Get(bs.items, p.id))
  THEN Nothing(bs)
  ELSE
    [bs |-> [lanes |-> bs.lanes, items |-> Delete(bs.items, p.id), lastUpdated |-> ts],
     reply |-> {},
     bcast |-> {[type |-> "item:delete:apply", id |-> p.id, mtime |-> ts]}]

\* socket.on('item:delete')
ItemDelete(bs, p, ts) ==
  IF p.id = "" \/ ~Truthy(Get(bs.items, p.id))
  THEN Nothing(bs)
  ELSE
    LET items == Delete(bs.items, p.id)
        lanes == [l \in DOMAIN bs.lanes |-> Filter(bs.lanes[l], p.id)]
    IN [bs |-> [lanes |-> lanes, items |-> items, lastUpdated |-> ts],
        reply |-> {},
        bcast |-> {[type |-> "item:delete:apply", id |-> p.id, mtime |-> ts]}]

\* a patch payload is [kind |-> "object", fields |-> f], or of kind
\* "missing" (undefined, null) or "string" (typeof patch !== 'object')
PatchOk(patch) == patch.kind = "object"

\* item:patch that stores the patch in place of the item instead of merging
ItemPatch_Replacing(bs, p, ts) ==
  IF p.id = "" \/ ~PatchOk(p.patch) \/ ~Truthy(Get(bs.items, p.id))
  THEN Nothing(bs)
  ELSE
    LET items == Put(bs.items, p.id, p.patch.fields)
    IN [bs |-> [bs EXCEPT !.items = items, !.lastUpdated = ts],
        reply |-> {},
        bcast |-> {[type |-> "item:patch:apply", id |-> p.id, patch |-> p.patch,
                    mtime |-> ts]}]

\* item:patch that lets the newer timestamp win: a patch stamped older than
\* the board is broadcast but not merged
ItemPatch_NewestWins(bs, p, ts) ==
  IF p.id = "" \/ ~PatchOk(p.patch) \/ ~Truthy(Get(bs.items, p.id))
  THEN Nothing(bs)
  ELSE
    LET existing == Get(bs.items, p.id)
        merged == IF ts < bs.lastUpdated THEN existing
                  ELSE Spread(existing, p.patch.fields)
        items == Put(bs.items, p.id, merged)
    IN [bs |-> [bs EXCEPT !.items = items, !.lastUpdated = ts],
        reply |-> {},
        bcast |-> {[type |-> "item:patch:apply", id |-> p.id, patch |-> p.patch,
                    mtime |-> ts]}]

\* socket.on('item:patch')
ItemPatch(bs, p, ts) ==
  IF p.id = "" \/ ~PatchOk(p.patch) \/ ~Truthy(Get(bs.items, p.id))
  THEN Nothing(bs)
  ELSE
    LET existing == Get(bs.items, p.id)
        items == Put(bs.items, p.id, Spread(existing, p.patch.fields))
    IN [bs |-> [bs EXCEPT !.items = items, !.lastUpdated = ts],
        reply |-> {},
        bcast |-> {[type |-> "item:patch:apply", id |-> p.id, patch |-> p.patch,
                    mtime |-> ts]}]

\* socket.on('lanes:move')
LanesMove(bs, p, ts) ==
  IF p.id = "" \/ p.from = "" \/ p.to = ""
     \/ ~LaneKnown(bs, p.from) \/ ~LaneKnown(bs, p.to)
  THEN Nothing(bs)
  ELSE
    LET fromArr == Filter(bs.lanes[p.from], p.id)
        toArr == InsertAt(bs.lanes[p.to], p.index, p.id)
        \* { ...lanes, [from]: fromArr, [to]: toArr }: the later key wins
        lanes == [l \in DOMAIN bs.lanes |->
                    IF l = p.to THEN toArr
                    ELSE IF l = p.from THEN fromArr
                    ELSE bs.lanes[l]]
    IN [bs |-> [bs EXCEPT !.lanes = lanes, !.lastUpdated = ts],
        reply |-> {},
        bcast |-> {[type |-> "lanes:move:apply", id |-> p.id, from |-> p.from,
                    to |-> p.to, index |-> p.index, mtime |-> ts]}]

\* io.on('connection'): the handler socket.on registers for the event
Handle(bs, req, ts) ==
  CASE req.type = "item:add" -> ItemAdd(bs, req, ts)
    [] req.type = "item:delete" -> ItemDelete(bs, req, ts)
    [] req.type = "item:patch" -> ItemPatch(bs, req, ts)
    [] req.type = "lanes:move" -> LanesMove(bs, req, ts)
    [] OTHER -> BoardPull(bs)

(***************************************************************************)
(* Payloads a connected socket may emit                                    *)
(***************************************************************************)
Uuids == {"x1", "x2"}
ReqIds == Uuids \cup ProtoKeys
ReqLanes == {"Unassigned", "New York", "Nowhere"}
ReqIndex == {{}, {1}}
ReqTimes == {0, MaxTime}
\* the mtime of a patch: absent (0), the latest instant or the earliest one
PatchTimes == ReqTimes \cup {1}
Callsigns == {"JBU123", "DAL2"}

NewItem(id, callsign) ==
  [id |-> id, source |-> "manual", callsign |-> callsign, altitude |-> "FL300",
   mach |-> ""]

\* x1 under either callsign, and x2
GoodItems == {NewItem("x1", c) : c \in Callsigns} \cup {NewItem("x2", "DAL2")}
\* a missing item and an item without id
BadItems == {Undefined, [callsign |-> "JBU123"]}
ReqItems == GoodItems \cup BadItems

PatchFields ==
  {[altitude |-> "FL350"], [altitude |-> "FL390"], [mach |-> "M80"]}

ReqPatches ==
  {[kind |-> "object", fields |-> f] : f \in PatchFields \cup {[id |-> "x2"]}}
    \cup {[kind |-> "missing"], [kind |-> "string"]}

\* a payload that fails one test of a handler's guard varies nothing else
AddPayloads ==
  [type : {"item:add"}, item : GoodItems, lane : ReqLanes \cap LaneKeys,
   index : ReqIndex, mtime : ReqTimes]
    \cup [type : {"item:add"}, item : BadItems, lane : {"Unassigned"},
          index : {{}}, mtime : {MaxTime}]
    \cup [type : {"item:add"}, item : GoodItems, lane : ReqLanes \ LaneKeys,
          index : {{}}, mtime : {MaxTime}]
DeletePayloads == [type : {"item:delete"}, id : ReqIds, mtime : ReqTimes]
PatchPayloads ==
  [type : {"item:patch"}, id : ReqIds, patch : {q \in ReqPatches : PatchOk(q)},
   mtime : PatchTimes]
    \cup [type : {"item:patch"}, id : ReqIds,
          patch : {q \in ReqPatches : ~PatchOk(q)}, mtime : {MaxTime}]
\* the (from, to) of a move: within a known lane, between Unassigned and
\* another known lane, and with one of the two lanes unknown
ReqLanePairs ==
  {<<f, t>> \in ReqLanes \X ReqLanes :
     f = "Unassigned" \/ t = "Unassigned" \/ (f = t /\ f # "Nowhere")}
MovePayloads ==
  {[type |-> "lanes:move", id |-> i, from |-> ft[1], to |-> ft[2], index |-> ix,
    mtime |-> ts] : i \in ReqIds, ft \in ReqLanePairs \cap (LaneKeys \X LaneKeys),
                   ix \in ReqIndex, ts \in ReqTimes}
    \cup {[type |-> "lanes:move", id |-> i, from |-> ft[1], to |-> ft[2],
           index |-> {}, mtime |-> MaxTime] :
             i \in ReqIds, ft \in ReqLanePairs \ (LaneKeys \X LaneKeys)}
PullPayload == [type |-> "board:pull"]

(***************************************************************************)
(* The Replica: the socket handlers of useRealtimeSync and the functions   *)
(* of App that change the local board                                      *)
(***************************************************************************)
Replicas == {"r1", "r2"}

\* Object.keys(state.lanes)
LaneOrder == <<"Unassigned", "New York", "Curacao", "Piarco", "Maiquetia">>

\* socket.on("board:state")
BoardStateApply(incoming) ==
  [incoming EXCEPT
     !.lanes = [l \in DOMAIN incoming.lanes |->
                  SelectSeq(incoming.lanes[l],
                            LAMBDA id : Truthy(Get(incoming.items, id)))]]

\* item:add:apply that lists the id in the lane but does not store the item
ItemAddApply_LaneOnly(prev, m, ts) ==
  IF ~LaneKnown(prev, m.lane) THEN prev
  ELSE
    LET id == IdOf(m.item)
        laneArr == InsertAt(Filter(prev.lanes[m.lane], id), m.index, id)
    IN [lanes |-> [prev.lanes EXCEPT ![m.lane] = laneArr],
        items |-> prev.items,
        lastUpdated |-> ts]

\* socket.on("item:add:apply")
ItemAddApply(prev, m, ts) ==
  IF ~LaneKnown(prev, m.lane) THEN prev
  ELSE
    LET id == IdOf(m.item)
        laneArr == InsertAt(Filter(prev.lanes[m.lane], id), m.index, id)
    IN [lanes |-> [prev.lanes EXCEPT ![m.lane] = laneArr],
        items |-> Put(prev.items, id, m.item),
        lastUpdated |-> ts]

\* item:delete:apply that takes the id out of the lanes but keeps the item
ItemDeleteApply_KeepingItem(prev, m, ts) ==
  IF ~Truthy(Get(prev.items, m.id)) THEN prev
  ELSE [lanes |-> [l \in DOMAIN prev.lanes |-> Filter(prev.lanes[l], m.id)],
        items |-> prev.items,
        lastUpdated |-> ts]

\* socket.on("item:delete:apply")
ItemDeleteApply(prev, m, ts) ==
  IF ~Truthy(Get(prev.items, m.id)) THEN prev
  ELSE [lanes |-> [l \in DOMAIN prev.lanes |-> Filter(prev.lanes[l], m.id)],
        items |-> Delete(prev.items, m.id),
        lastUpdated |-> ts]

\* item:patch:apply that stores the patch in place of the item
ItemPatchApply_Replacing(prev, m, ts) ==
  IF ~Truthy(Get(prev.items, m.id)) THEN prev
  ELSE [prev EXCEPT !.items = Put(prev.items, m.id, m.patch.fields),
                    !.lastUpdated = ts]

\* socket.on("item:patch:apply")
ItemPatchApply(prev, m, ts) ==
  IF ~Truthy(Get(prev.items, m.id)) THEN prev
  ELSE [prev EXCEPT
          !.items = Put(prev.items, m.id,
                        Spread(Get(prev.items, m.id), m.patch.fields)),
          !.lastUpdated = ts]

\* the setState updater shared by socket.on("lanes:move:apply") and moveItem
MoveLanes(prev, id, from, to, index) ==
  LET fromArr == Filter(prev.lanes[from], id)
      toArr == InsertAt(prev.lanes[to], index, id)
  IN [l \in DOMAIN prev.lanes |->
        IF l = to THEN toArr ELSE IF l = from THEN fromArr ELSE prev.lanes[l]]

\* socket.on("lanes:move:apply")
LanesMoveApply(prev, m, ts) ==
  IF ~LaneKnown(prev, m.from) \/ ~LaneKnown(prev, m.to) THEN prev
  ELSE [prev EXCEPT !.lanes = MoveLanes(prev, m.id, m.from, m.to, m.index),
                    !.lastUpdated = ts]

\* the item addPilotToUnassigned builds for a pilot
PilotItem(id, pilot) ==
  [id |-> id, source |-> "vatsim", callsign |-> pilot.callsign,
   altitude |-> "FL300", mach |-> ""]

\* the pilots of the live feed a user can click
Pilots == {[callsign |-> "JBU123"], [callsign |-> "DAL2"]}

\* String.prototype.toLowerCase on the callsigns in use
ToLowerCase(c) ==
  CASE c = "JBU123" -> "jbu123"
    [] c = "DAL2" -> "dal2"
    [] OTHER -> c

\* the exists test of addPilotToUnassigned; it throws on an item that has no
\* callsign, and then nothing is added either
MayAddPilot(st, pilot) ==
  \A k \in DOMAIN st.items :
    /\ "callsign" \in DOMAIN st.items[k]
    /\ ToLowerCase(st.items[k].callsign) # ToLowerCase(pilot.callsign)

\* addPilotToUnassigned that puts the new card at the end of Unassigned
AddPilotLocal_Appending(prev, item, now) ==
  [lanes |-> [prev.lanes EXCEPT !["Unassigned"] = @ \o <<item.id>>],
   items |-> Put(prev.items, item.id, item),
   lastUpdated |-> now]

\* the setState updater of addPilotToUnassigned
AddPilotLocal(prev, item, now) ==
  [lanes |-> [prev.lanes EXCEPT !["Unassigned"] = <<item.id>> \o @],
   items |-> Put(prev.items, item.id, item),
   lastUpdated |-> now]

\* the setState updater of patchItem
PatchItemLocal(prev, id, fields, now) ==
  [prev EXCEPT !.items = Put(prev.items, id, Spread(Get(prev.items, id), fields)),
               !.lastUpdated = now]

\* the setState updater of deleteItem
DeleteItemLocal(prev, id, now) ==
  [lanes |-> [l \in DOMAIN prev.lanes |-> Filter(prev.lanes[l], id)],
   items |-> Delete(prev.items, id),
   lastUpdated |-> now]

\* the setState updater of moveItem
MoveItemLocal(prev, id, from, to, index, now) ==
  [prev EXCEPT !.lanes = MoveLanes(prev, id, from, to, index),
               !.lastUpdated = now]

\* arr.indexOf(x), zero-based, -1 when absent
IndexOf(arr, x) ==
  IF \E i \in DOMAIN arr : arr[i] = x
  THEN (CHOOSE i \in DOMAIN arr : arr[i] = x /\ \A j \in 1..(i - 1) : arr[j] # x) - 1
  ELSE -1

\* arrayMove(arr, from, to) of @dnd-kit/sortable, zero-based indices
ArrayMove(arr, from, to) ==
  LET x == arr[from + 1]
      rest == SubSeq(arr, 1, from) \o SubSeq(arr, from + 2, Len(arr))
  IN Splice(rest, to, x)

\* the setState updater of reorderInLane
ReorderInLaneLocal(prev, lane, oldIndex, newIndex, now) ==
  [prev EXCEPT !.lanes[lane] = ArrayMove(@, oldIndex, newIndex),
               !.lastUpdated = now]

\* laneKeys.find(pred): the first lane, in key order, among those that
\* satisfy pred; "" when there is none
FirstLane(found) ==
  IF \E i \in DOMAIN LaneOrder : LaneOrder[i] \in found
  THEN LaneOrder[CHOOSE i \in DOMAIN LaneOrder :
                   LaneOrder[i] \in found /\ \A j \in 1..(i - 1) : LaneOrder[j] \notin found]
  ELSE ""

\* state.lanes[l].includes(id)
Includes(st, l, id) == \E i \in DOMAIN st.lanes[l] : st.lanes[l][i] = id

\* the cards the board renders: ids listed in a lane whose item is truthy
Cards(st) ==
  {id \in UNION {{st.lanes[l][i] : i \in DOMAIN st.lanes[l]} : l \in DOMAIN st.lanes} :
     Truthy(Get(st.items, id))}

\* the values Date.now() returns on a replica in the runs explored: the
\* replicas' clocks agree on the latest instant
ClientTimes == {MaxTime}

\* the lanes a card is dropped on in the runs explored
DropLanes == {"Unassigned", "New York"}

(***************************************************************************)
(* State                                                                   *)
(***************************************************************************)
(* The estimates of a card.  A string is the sequence of its characters.   *)
(***************************************************************************)
DigitValue ==
  [ch \in {"0", "1", "2", "3", "4", "5", "6", "7", "8", "9"} |->
     CASE ch = "0" -> 0 [] ch = "1" -> 1 [] ch = "2" -> 2 [] ch = "3" -> 3
       [] ch = "4" -> 4 [] ch = "5" -> 5 [] ch = "6" -> 6 [] ch = "7" -> 7
       [] ch = "8" -> 8 [] ch = "9" -> 9]

\* String.prototype.trim
RECURSIVE TrimStart(_)
TrimStart(s) == IF s # <<>> /\ Head(s) = " " THEN TrimStart(Tail(s)) ELSE s

RECURSIVE TrimEnd(_)
TrimEnd(s) ==
  IF s # <<>> /\ s[Len(s)] = " " THEN TrimEnd(SubSeq(s, 1, Len(s) - 1)) ELSE s

Trim(s) == TrimEnd(TrimStart(s))

\* Number(x) of a two-character slice x, {} for NaN; a space before or
\* after the digit is skipped, a sign before the digit is read, and a slice
\* of spaces is 0
NumberOf(x) ==
  IF x[1] \in DOMAIN DigitValue /\ x[2] \in DOMAIN DigitValue
  THEN {10 * DigitValue[x[1]] + DigitValue[x[2]]}
  ELSE IF x[1] = " " /\ x[2] \in DOMAIN DigitValue THEN {DigitValue[x[2]]}
  ELSE IF x[2] = " " /\ x[1] \in DOMAIN DigitValue THEN {DigitValue[x[1]]}
  ELSE IF x[1] = "+" /\ x[2] \in DOMAIN DigitValue THEN {DigitValue[x[2]]}
  ELSE IF x[1] = "-" /\ x[2] \in DOMAIN DigitValue THEN {0 - DigitValue[x[2]]}
  ELSE IF x[1] = " " /\ x[2] = " " THEN {0}
  ELSE {}

\* parseHHMMToMinutes: {} for null
ParseHHMMToMinutes(hhmm) ==
  LET s == Trim(hhmm)
  IN IF Len(s) # 4 THEN {}
     ELSE LET hh == NumberOf(SubSeq(s, 1, 2))
              mm == NumberOf(SubSeq(s, 3, 4))
          IN IF hh = {} \/ mm = {} THEN {}
             ELSE {h * 60 + m : <<h, m>> \in
                     {x \in hh \X mm : x[1] >= 0 /\ x[1] <= 23
                                        /\ x[2] >= 0 /\ x[2] <= 59}}

\* Math.abs
Abs(n) == IF n < 0 THEN 0 - n ELSE n

\* diffMinutes: {} for null
DiffMinutes(hhmmA, hhmmB) ==
  {Abs(a - b) : <<a, b>> \in ParseHHMMToMinutes(hhmmA) \X ParseHHMMToMinutes(hhmmB)}

\* the class names SortableCard gives the center-estimate display
ClassNameOf(item) ==
  LET pilotEstimate == item.estimate
      centerEstimate == item.centerEstimate
      diff == DiffMinutes(pilotEstimate, centerEstimate)
  IN {"input-sm", "center-estimate-display"}
       \cup IF pilotEstimate # <<>> /\ centerEstimate # <<>> /\ diff # {}
            THEN IF \A d \in diff : d <= 3
                 THEN {"center-estimate--match"}
                 ELSE {"center-estimate--mismatch"}
            ELSE {}

\* strings typed into, or computed for, the two estimate fields
Chars(a, b, c, d) == <<a, b, c, d>>

\* parseHHMM: {} for null
ParseHHMM(hhmm) ==
  LET trimmed == Trim(hhmm)
  IN IF trimmed = <<>> \/ Len(trimmed) # 4 THEN {}
     ELSE LET hh == NumberOf(SubSeq(trimmed, 1, 2))
              mm == NumberOf(SubSeq(trimmed, 3, 4))
          IN IF hh = {} \/ mm = {} THEN {}
             ELSE {h * 60 + m : <<h, m>> \in
                     {x \in hh \X mm : ~(x[1] < 0 \/ x[1] > 23
                                           \/ x[2] < 0 \/ x[2] > 59)}}

\* diffMinutesHHMM: {} for null
DiffMinutesHHMM(a, b) ==
  LET ma == ParseHHMM(a)
      mb == ParseHHMM(b)
  IN IF ma = {} \/ mb = {} THEN {}
     ELSE {x - y : <<x, y>> \in ma \X mb}

\* the characters typed into a time field, and the texts of them
TimeChars == {"0", "2", "6", " ", "+", "-", "x"}
TimeTexts == UNION {[1..n -> TimeChars] : n \in 0..MaxChars}

\* the texts a typed one is compared with
OtherTexts == {Chars("0", "2", "0", "6"), Chars("2", "0", "x", "0")}

Estimates ==
  { <<>>,
    Chars("0", "0", "0", "0"), Chars("0", "0", "0", "1"), Chars("0", "0", "0", "3"),
    Chars("0", "0", "0", "4"), Chars("1", "2", "0", "0"), Chars("1", "2", "0", "3"),
    Chars("1", "2", "0", "4"), Chars("2", "3", "5", "6"), Chars("2", "3", "5", "7"),
    Chars("2", "3", "5", "9"), Chars("2", "4", "0", "0"), Chars("1", "2", "6", "0"),
    Chars("1", "2", "x", "0"), <<"1", "2", "0">>, <<" ", "0", "0", "0", "1">> }

(***************************************************************************)
VARIABLES
  boardState,   \* the Authority's board
  last,         \* the handler run in progress: the payload, the board before
                \* it, and the messages it emitted; NoRun between two runs
  pulled,       \* the snapshots sent since the last accepted mutation, in order
  nreq,         \* requests handled so far that came from other sockets
  conn,         \* conn[r]: replica r's socket is connected
  reqQ,         \* reqQ[r]: events replica r emitted, not yet handled
  inQ,          \* inQ[r]: events sent to replica r, not yet received
  local,        \* local[r]: replica r's board (the state of App)
  synced,       \* synced[r]: replica r has applied a snapshot
  early,        \* early[r]: replica r changed its board before it was synced
  acted,        \* acted[r]: replica r has originated an operation
  issued,       \* the ids uuidv4() has returned
  nops,         \* user actions performed so far that emitted an event
  nreorders,    \* in-lane reorderings performed so far
  sent,         \* sent[r]: the mutations replica r emitted, in order, each
                \* with the item as r held it just before the action
  gaps,         \* gaps[r]: how often replica r has lost its connection
  deleted,      \* the ids of the deletes the Authority applied with no add
                \* of the id applied since
  sessions,     \* the sessions map: sid -> the CID of the session's user
  sids,         \* the sids createSession has drawn
  loggedOut,    \* the sids whose session /auth/logout has ended
  ACCESS_CIDS,  \* the access list
  ADMIN_CIDS,   \* the admin list
  cardItem,     \* the estimates of the item a SortableCard is rendered with
  centerEstimateClassName,   \* the class names of its center-estimate display
  hhmmArgs,     \* the arguments of the call of diffMinutesHHMM, <<>> before it
  hhmmOut       \* what parseHHMM returned for each and diffMinutesHHMM for
                \* both, {} for null

accessVars == <<sessions, sids, loggedOut, ACCESS_CIDS, ADMIN_CIDS>>
authVars == <<boardState, last, pulled, nreq, deleted, accessVars>>
authVarsButBoard == <<last, pulled, nreq, accessVars>>
timeVars == <<hhmmArgs, hhmmOut>>
cardVars == <<cardItem, centerEstimateClassName, timeVars>>
replicaVars ==
  <<conn, reqQ, inQ, local, synced, early, acted, issued, nops, nreorders, sent,
    gaps, cardVars>>
vars == <<boardState, last, pulled, nreq, conn, reqQ, inQ, local, synced, early,
          acted, issued, nops, nreorders, sent, gaps, deleted, accessVars,
          cardVars>>

\* the users of the single sign-on
Cids == {"c1", "c2"}

\* the values crypto.randomBytes(24).toString('hex') returns
Sids == {"s1", "s2"}

\* new Map()
NoSessions == [sid \in {} |-> ""]

\* process.env.ALLOWED_CIDS and process.env.ADMIN_CIDS of the deployment
DEFAULT_ALLOWED_CIDS == {}
DEFAULT_ADMIN_CIDS == {"c1"}

NoRequest == [type |-> "none"]

NoRun(bs) == [req |-> NoRequest, pre |-> bs, reply |-> {}, bcast |-> {}]

\* the board of a replica whose App is not mounted yet
Unmounted == InitialBoard(0)

Init ==
  /\ boardState = InitialBoard(1)
  /\ last = NoRun(boardState)
  /\ pulled = <<>>
  /\ nreq = 0
  /\ conn = [r \in Replicas |-> FALSE]
  /\ reqQ = [r \in Replicas |-> <<>>]
  /\ inQ = [r \in Replicas |-> <<>>]
  /\ local = [r \in Replicas |-> Unmounted]
  /\ synced = [r \in Replicas |-> FALSE]
  /\ early = [r \in Replicas |-> FALSE]
  /\ acted = [r \in Replicas |-> FALSE]
  /\ issued = {}
  /\ nops = 0
  /\ nreorders = 0
  /\ sent = [r \in Replicas |-> <<>>]
  /\ gaps = [r \in Replicas |-> 0]
  /\ deleted = {}
  /\ sessions = NoSessions
  /\ sids = {}
  /\ loggedOut = {}
  /\ ACCESS_CIDS = DEFAULT_ALLOWED_CIDS
  /\ ADMIN_CIDS = DEFAULT_ADMIN_CIDS
  /\ cardItem = [estimate |-> <<>>, centerEstimate |-> <<>>]
  /\ centerEstimateClassName = ClassNameOf(cardItem)
  /\ hhmmArgs = <<>>
  /\ hhmmOut = [ma |-> {}, mb |-> {}, diff |-> {}]

\* deleted once the Authority has handled request p with result res
Deleted(p, res) ==
  IF res.bcast = {} THEN deleted
  ELSE IF p.type = "item:delete" THEN deleted \cup {p.id}
  ELSE IF p.type = "item:add" THEN deleted \ {IdOf(p.item)}
  ELSE deleted

AsSeq(msgs) == IF msgs = {} THEN <<>> ELSE <<CHOOSE m \in msgs : TRUE>>

\* io.emit in place of socket.broadcast.emit: the sender is sent the
\* broadcast as well
Emitted_Echoing(sender, res) ==
  [t \in Replicas |->
     IF conn[t] THEN inQ[t] \o AsSeq(res.reply) \o AsSeq(res.bcast) ELSE inQ[t]]

\* a broadcast that is kept for a socket that is not connected, to be
\* delivered when it connects
Emitted_Queueing(sender, res) ==
  [t \in Replicas |->
     IF t = sender THEN inQ[t] \o AsSeq(res.reply)
     ELSE inQ[t] \o AsSeq(res.bcast)]

\* socket.emit to the sender and socket.broadcast.emit to every other
\* connected socket; sender is "" for a socket that is not a replica
Emitted(sender, res) ==
  [t \in Replicas |->
     IF t = sender THEN inQ[t] \o AsSeq(res.reply)
     ELSE IF conn[t] THEN inQ[t] \o AsSeq(res.bcast)
     ELSE inQ[t]]

(***************************************************************************)
(* The Authority handles an event of a connected socket that is not one of *)
(* the replicas (any client may connect and emit any payload)              *)
(***************************************************************************)
Handled(p, res) ==
  /\ nreq < MaxReqs
  /\ last.req = NoRequest
  /\ nreq' = nreq + 1
  /\ boardState' = res.bs
  /\ last' = [req |-> p, pre |-> boardState, reply |-> res.reply,
              bcast |-> res.bcast]
  /\ pulled' = IF res.bcast # {} THEN <<>>
               ELSE IF res.reply # {} THEN Append(pulled, CHOOSE m \in res.reply : TRUE)
               ELSE pulled
  /\ inQ' = Emitted("", res)
  /\ deleted' = Deleted(p, res)
  /\ UNCHANGED <<conn, reqQ, local, synced, early, acted, issued, nops, nreorders,
                 sent, gaps>>
  /\ UNCHANGED <<accessVars, cardVars>>

OnBoardPull == Handled(PullPayload, BoardPull(boardState))

OnItemAdd ==
  \E p \in AddPayloads : \E ts \in Stamp(p.mtime) :
    Handled(p, ItemAdd(boardState, p, ts))

OnItemDelete ==
  \E p \in DeletePayloads : \E ts \in Stamp(p.mtime) :
    Handled(p, ItemDelete(boardState, p, ts))

OnItemPatch ==
  \E p \in PatchPayloads : \E ts \in Stamp(p.mtime) :
    Handled(p, ItemPatch(boardState, p, ts))

OnLanesMove ==
  \E p \in MovePayloads : \E ts \in Stamp(p.mtime) :
    Handled(p, LanesMove(boardState, p, ts))

\* the handler has returned; the Authority waits for the next event
Return ==
  /\ last.req # NoRequest
  /\ last' = NoRun(boardState)
  /\ UNCHANGED <<boardState, pulled, nreq, deleted, accessVars>>
  /\ UNCHANGED replicaVars

Next ==
  \/ OnBoardPull
  \/ OnItemAdd
  \/ OnItemDelete
  \/ OnItemPatch
  \/ OnLanesMove
  \/ Return

Spec == Init /\ [][Next]_vars


(***************************************************************************)
(* The Replica's actions                                                   *)
(***************************************************************************)
\* the App mounts (useState initial value), io(SOCKET_URL) connects and the
\* "connect" handler emits board:pull
Connect(r) ==
  /\ ~conn[r]
  /\ local[r] = Unmounted
  /\ conn' = [conn EXCEPT ![r] = TRUE]
  /\ \E now \in ClientTimes : local' = [local EXCEPT ![r] = InitialBoard(now)]
  /\ reqQ' = [reqQ EXCEPT ![r] = Append(@, PullPayload)]
  /\ UNCHANGED <<inQ, synced, early, acted, issued, nops, nreorders, sent,
                 gaps>>
  /\ UNCHANGED <<authVars, cardVars>>

\* the item id a mutation names
ReqId(req) == IF req.type = "item:add" THEN IdOf(req.item) ELSE req.id

\* a user action: the local board is updated and the event is emitted; the
\* Date.now() of the setState updater and the one of the send function are
\* read within the same millisecond and are one value, now
UserAction(r, st, req) ==
  /\ local' = [local EXCEPT ![r] = st]
  /\ reqQ' = [reqQ EXCEPT ![r] = Append(@, req)]
  /\ sent' = [sent EXCEPT
                ![r] = Append(@, [req |-> req,
                                  knew |-> Get(local[r].items, ReqId(req))])]
  /\ acted' = [acted EXCEPT ![r] = TRUE]
  /\ early' = [early EXCEPT ![r] = @ \/ ~synced[r]]
  /\ nops' = nops + 1
  /\ UNCHANGED <<conn, inQ, synced, nreorders, gaps>>
  /\ UNCHANGED <<authVars, cardVars>>

MayAct(r) == conn[r] /\ nops < MaxOps

\* addPilotToUnassigned(p) and sendItemAdd(item, "Unassigned")
AddPilotToUnassigned(r) ==
  /\ MayAct(r)
  /\ Uuids \ issued # {}
  /\ \E pilot \in Pilots, now \in ClientTimes :
       LET id == CHOOSE i \in Uuids \ issued : TRUE
           item == PilotItem(id, pilot)
       IN /\ MayAddPilot(local[r], pilot)
          /\ issued' = issued \cup {id}
          /\ UserAction(r, AddPilotLocal(local[r], item, now),
                        [type |-> "item:add", item |-> item, lane |-> "Unassigned",
                         index |-> {}, mtime |-> now])

\* patchItem(id, patch) and sendItemPatch(id, patch), from a rendered card
PatchItem(r) ==
  /\ MayAct(r)
  /\ \E id \in Cards(local[r]), fields \in PatchFields, now \in ClientTimes :
       UserAction(r, PatchItemLocal(local[r], id, fields, now),
                  [type |-> "item:patch", id |-> id,
                   patch |-> [kind |-> "object", fields |-> fields], mtime |-> now])
  /\ UNCHANGED issued

\* deleteItem(id) and sendItemDelete(id), from a rendered card
DeleteItem(r) ==
  /\ MayAct(r)
  /\ \E id \in Cards(local[r]), now \in ClientTimes :
       UserAction(r, DeleteItemLocal(local[r], id, now),
                  [type |-> "item:delete", id |-> id, mtime |-> now])
  /\ UNCHANGED issued

\* handleDragEnd: the lane of the dragged card and the lane dropped on; over
\* is a lane or a card
Origin(st, active) == FirstLane({l \in DOMAIN st.lanes : Includes(st, l, active)})

OverLane(st, over) ==
  FirstLane({k \in DOMAIN st.lanes : k = over \/ Includes(st, k, over)})

\* handleDragEnd, card dropped on another lane: moveItem and sendMove
DragToLane(r) ==
  /\ MayAct(r)
  /\ \E active \in Cards(local[r]), over \in DropLanes \cup Cards(local[r]),
        now \in ClientTimes :
       LET st == local[r]
           origin == Origin(st, active)
           overLane == OverLane(st, over)
           targetIndex == IF over = overLane THEN Len(st.lanes[overLane])
                          ELSE IndexOf(st.lanes[overLane], over)
           index == IF targetIndex = -1 THEN {} ELSE {targetIndex}
       IN /\ origin # "" /\ overLane # "" /\ origin # overLane
          /\ UserAction(r, MoveItemLocal(st, active, origin, overLane, index, now),
                        [type |-> "lanes:move", id |-> active, from |-> origin,
                         to |-> overLane, index |-> index, mtime |-> now])
  /\ UNCHANGED issued

\* handleDragEnd, card dropped inside its own lane: reorderInLane, which
\* emits nothing
DragInLane(r) ==
  /\ conn[r] /\ nreorders < MaxReorders
  /\ \E active \in Cards(local[r]), over \in DropLanes \cup Cards(local[r]),
        now \in ClientTimes :
       LET st == local[r]
           origin == Origin(st, active)
           overLane == OverLane(st, over)
           oldIndex == IndexOf(st.lanes[origin], active)
           newIndex == IF over = origin THEN Len(st.lanes[origin]) - 1
                       ELSE IndexOf(st.lanes[origin], over)
       IN /\ origin # "" /\ overLane # "" /\ origin = overLane
          /\ oldIndex # -1 /\ newIndex # -1 /\ oldIndex # newIndex
          /\ local' = [local EXCEPT
                         ![r] = ReorderInLaneLocal(st, origin, oldIndex, newIndex, now)]
          /\ acted' = [acted EXCEPT ![r] = TRUE]
          /\ early' = [early EXCEPT ![r] = @ \/ ~synced[r]]
          /\ nreorders' = nreorders + 1
  /\ UNCHANGED <<conn, reqQ, inQ, synced, issued, nops, sent,
                 gaps>>
  /\ UNCHANGED <<authVars, cardVars>>

\* replica r receives the next event sent to it
Received(r, type, st) ==
  /\ inQ[r] # <<>>
  /\ Head(inQ[r]).type = type
  /\ inQ' = [inQ EXCEPT ![r] = Tail(@)]
  /\ local' = [local EXCEPT ![r] = st]
  /\ synced' = [synced EXCEPT ![r] = @ \/ type = "board:state"]
  /\ UNCHANGED <<conn, reqQ, early, acted, issued, nops, nreorders, sent,
                 gaps>>
  /\ UNCHANGED <<authVars, cardVars>>

ApplyBoardState(r) ==
  /\ inQ[r] # <<>>
  /\ Received(r, "board:state",
              IF Head(inQ[r]).type = "board:state"
              THEN BoardStateApply(Head(inQ[r]).state) ELSE local[r])

ApplyItemAdd(r) ==
  /\ inQ[r] # <<>> /\ Head(inQ[r]).type = "item:add:apply"
  /\ \E ts \in Stamp(Head(inQ[r]).mtime) :
       Received(r, "item:add:apply", ItemAddApply(local[r], Head(inQ[r]), ts))

ApplyItemDelete(r) ==
  /\ inQ[r] # <<>> /\ Head(inQ[r]).type = "item:delete:apply"
  /\ \E ts \in Stamp(Head(inQ[r]).mtime) :
       Received(r, "item:delete:apply", ItemDeleteApply(local[r], Head(inQ[r]), ts))

ApplyItemPatch(r) ==
  /\ inQ[r] # <<>> /\ Head(inQ[r]).type = "item:patch:apply"
  /\ \E ts \in Stamp(Head(inQ[r]).mtime) :
       Received(r, "item:patch:apply", ItemPatchApply(local[r], Head(inQ[r]), ts))

ApplyLanesMove(r) ==
  /\ inQ[r] # <<>> /\ Head(inQ[r]).type = "lanes:move:apply"
  /\ \E ts \in Stamp(Head(inQ[r]).mtime) :
       Received(r, "lanes:move:apply", LanesMoveApply(local[r], Head(inQ[r]), ts))

(***************************************************************************)
(* The Authority handles the next event of replica r                       *)
(***************************************************************************)
Served(r, type, res) ==
  /\ reqQ[r] # <<>>
  /\ Head(reqQ[r]).type = type
  /\ reqQ' = [reqQ EXCEPT ![r] = Tail(@)]
  /\ boardState' = res.bs
  /\ inQ' = Emitted(r, res)
  /\ deleted' = Deleted(Head(reqQ[r]), res)
  /\ UNCHANGED <<last, pulled, nreq, accessVars, cardVars>>
  /\ UNCHANGED <<conn, local, synced, early, acted, issued, nops, nreorders, sent,
                 gaps>>

RecvBoardPull(r) == Served(r, "board:pull", BoardPull(boardState))

RecvItemAdd(r) ==
  /\ reqQ[r] # <<>> /\ Head(reqQ[r]).type = "item:add"
  /\ \E ts \in Stamp(Head(reqQ[r]).mtime) :
       Served(r, "item:add", ItemAdd(boardState, Head(reqQ[r]), ts))

RecvItemDelete(r) ==
  /\ reqQ[r] # <<>> /\ Head(reqQ[r]).type = "item:delete"
  /\ \E ts \in Stamp(Head(reqQ[r]).mtime) :
       Served(r, "item:delete", ItemDelete(boardState, Head(reqQ[r]), ts))

RecvItemPatch(r) ==
  /\ reqQ[r] # <<>> /\ Head(reqQ[r]).type = "item:patch"
  /\ \E ts \in Stamp(Head(reqQ[r]).mtime) :
       Served(r, "item:patch", ItemPatch(boardState, Head(reqQ[r]), ts))

RecvLanesMove(r) ==
  /\ reqQ[r] # <<>> /\ Head(reqQ[r]).type = "lanes:move"
  /\ \E ts \in Stamp(Head(reqQ[r]).mtime) :
       Served(r, "lanes:move", LanesMove(boardState, Head(reqQ[r]), ts))

\* SpecSync: the replicas run the shipped client; every request comes from a
\* user action of one of them
NextSync ==
  \E r \in Replicas :
    \/ Connect(r)
    \/ AddPilotToUnassigned(r)
    \/ PatchItem(r)
    \/ DeleteItem(r)
    \/ DragToLane(r)
    \/ DragInLane(r)
    \/ RecvBoardPull(r)
    \/ RecvItemAdd(r)
    \/ RecvItemDelete(r)
    \/ RecvItemPatch(r)
    \/ RecvLanesMove(r)
    \/ ApplyBoardState(r)
    \/ ApplyItemAdd(r)
    \/ ApplyItemDelete(r)
    \/ ApplyItemPatch(r)
    \/ ApplyLanesMove(r)

SpecSync == Init /\ [][NextSync]_vars

\* the pilots other clients add, and the ids their uuidv4() returns
SeedPilots == {[callsign |-> "JBU123"]}
SeedIds == {"x1"}

\* a client that is not one of the replicas adds a pilot: the Authority
\* handles the item:add its addPilotToUnassigned emitted
Seed ==
  /\ SeedIds \ issued # {}
  /\ \E pilot \in SeedPilots, now \in ClientTimes :
       LET id == CHOOSE i \in SeedIds \ issued : TRUE
           p == [type |-> "item:add", item |-> PilotItem(id, pilot),
                 lane |-> "Unassigned", index |-> {}, mtime |-> now]
           res == ItemAdd(boardState, p, now)
       IN /\ boardState' = res.bs
          /\ inQ' = Emitted("", res)
          /\ issued' = issued \cup {id}
          /\ deleted' = Deleted(p, res)
  /\ UNCHANGED <<authVarsButBoard, cardVars>>
  /\ UNCHANGED <<conn, reqQ, local, synced, early, acted, nops, nreorders, sent,
                 gaps>>

\* SpecSeeded: other clients add the items; the replicas patch, delete and
\* move the cards they are shown
NextSeeded ==
  \/ Seed
  \/ \E r \in Replicas :
       \/ Connect(r)
       \/ PatchItem(r)
       \/ DeleteItem(r)
       \/ DragToLane(r)
       \/ RecvBoardPull(r)
       \/ RecvItemDelete(r)
       \/ RecvItemPatch(r)
       \/ RecvLanesMove(r)
       \/ ApplyBoardState(r)
       \/ ApplyItemAdd(r)
       \/ ApplyItemDelete(r)
       \/ ApplyItemPatch(r)
       \/ ApplyLanesMove(r)

SpecSeeded == Init /\ [][NextSeeded]_vars

\* replica r's connection is lost (transport close, ping timeout); the events
\* in transit in either direction are lost with it.  An event that does get
\* through is one handled or received before this step.
Disconnect(r) ==
  /\ conn[r]
  /\ gaps[r] < MaxGaps
  /\ conn' = [conn EXCEPT ![r] = FALSE]
  /\ gaps' = [gaps EXCEPT ![r] = @ + 1]
  /\ reqQ' = [reqQ EXCEPT ![r] = <<>>]
  /\ inQ' = [inQ EXCEPT ![r] = <<>>]
  /\ synced' = [synced EXCEPT ![r] = FALSE]
  /\ UNCHANGED <<local, early, acted, issued, nops, nreorders, sent>>
  /\ UNCHANGED <<authVars, cardVars>>

\* the socket of a mounted App reconnects: the "connect" handler runs again
\* and emits board:pull; the React state is kept
Reconnect(r) ==
  /\ ~conn[r]
  /\ local[r] # Unmounted
  /\ conn' = [conn EXCEPT ![r] = TRUE]
  /\ reqQ' = [reqQ EXCEPT ![r] = Append(@, PullPayload)]
  /\ UNCHANGED <<inQ, local, synced, early, acted, issued, nops, nreorders, sent,
                 gaps>>
  /\ UNCHANGED <<authVars, cardVars>>

\* SpecListen: one replica connects and only listens; every mutation comes
\* from another connected socket
Listeners == {"r1"}

NextListen ==
  \/ nreq < MaxListenReqs /\ OnItemAdd
  \/ nreq < MaxListenReqs /\ OnItemDelete
  \/ nreq < MaxListenReqs /\ OnItemPatch
  \/ nreq < MaxListenReqs /\ OnLanesMove
  \/ Return
  \/ \E r \in Listeners :
       \/ Connect(r)
       \/ RecvBoardPull(r)
       \/ ApplyBoardState(r)
       \/ ApplyItemAdd(r)
       \/ ApplyItemDelete(r)
       \/ ApplyItemPatch(r)
       \/ ApplyLanesMove(r)

SpecListen == Init /\ [][NextListen]_vars

\* SpecReconnect: the listening replica may lose its connection and
\* reconnect while another connected socket mutates the board
NextReconnect ==
  \/ NextListen
  \/ \E r \in Listeners :
       \/ Disconnect(r)
       \/ Reconnect(r)

SpecReconnect == Init /\ [][NextReconnect]_vars

\* SpecDrop: other clients add the items, one replica patches, deletes and
\* moves the cards it is shown, and the listening replica may lose its
\* connection and reconnect
NextDrop ==
  \/ Seed
  \/ \E r \in Replicas \ Listeners :
       \/ Connect(r)
       \/ PatchItem(r)
       \/ DeleteItem(r)
       \/ DragToLane(r)
       \/ RecvBoardPull(r)
       \/ RecvItemDelete(r)
       \/ RecvItemPatch(r)
       \/ RecvLanesMove(r)
       \/ ApplyBoardState(r)
       \/ ApplyItemAdd(r)
  \/ \E r \in Listeners :
       \/ Connect(r)
       \/ RecvBoardPull(r)
       \/ ApplyBoardState(r)
       \/ ApplyItemAdd(r)
       \/ ApplyItemDelete(r)
       \/ ApplyItemPatch(r)
       \/ ApplyLanesMove(r)
       \/ Disconnect(r)
       \/ Reconnect(r)

SpecDrop == Init /\ [][NextDrop]_vars

\* SpecSolo: one replica alone adds, patches, deletes and moves cards to
\* other lanes; nobody else mutates the board
NextSolo ==
  \E r \in Listeners :
    \/ Connect(r)
    \/ AddPilotToUnassigned(r)
    \/ PatchItem(r)
    \/ DeleteItem(r)
    \/ DragToLane(r)
    \/ RecvBoardPull(r)
    \/ RecvItemAdd(r)
    \/ RecvItemDelete(r)
    \/ RecvItemPatch(r)
    \/ RecvLanesMove(r)
    \/ ApplyBoardState(r)

SpecSolo == Init /\ [][NextSolo]_vars

(***************************************************************************)
(* Sessions, the access list and the admin list (the HTTP API), and the    *)
(* sockets of users who may or may not hold a session                      *)
(***************************************************************************)
\* getSession(req): the user of the session the sid cookie names, {} for
\* null
GetSession(sid) == IF sid \in DOMAIN sessions THEN {sessions[sid]} ELSE {}

\* GET /auth/callback: createSession under a fresh random sid, and the first
\* user to log in while the access list is empty is put on it
Login(c) ==
  /\ Sids \ sids # {}
  /\ LET sid == CHOOSE x \in Sids \ sids : TRUE
     IN /\ sids' = sids \cup {sid}
        /\ sessions' = Put(sessions, sid, c)
  /\ ACCESS_CIDS' = IF ACCESS_CIDS = {} THEN {c} ELSE ACCESS_CIDS
  /\ UNCHANGED <<loggedOut, ADMIN_CIDS, boardState, last, pulled, nreq,
                 deleted>>
  /\ UNCHANGED replicaVars

\* /auth/logout that clears the cookie of the browser but keeps the session
Logout_KeepingSession(sid) ==
  /\ sid \in DOMAIN sessions
  /\ loggedOut' = loggedOut \cup {sid}
  /\ UNCHANGED <<sessions, sids, ACCESS_CIDS, ADMIN_CIDS, boardState, last,
                 pulled, nreq, deleted>>
  /\ UNCHANGED replicaVars

\* POST /auth/logout with the sid cookie of a session
Logout(sid) ==
  /\ sid \in DOMAIN sessions
  /\ sessions' = Delete(sessions, sid)
  /\ loggedOut' = loggedOut \cup {sid}
  /\ UNCHANGED <<sids, ACCESS_CIDS, ADMIN_CIDS, boardState, last, pulled, nreq,
                 deleted>>
  /\ UNCHANGED replicaVars

\* GET /auth/me
AuthMe(sid) ==
  IF GetSession(sid) = {}
  THEN [status |-> 401, authenticated |-> FALSE, authorized |-> FALSE,
        isManager |-> FALSE]
  ELSE LET cid == sessions[sid]
       IN [status |-> 200, authenticated |-> TRUE,
           authorized |-> (ACCESS_CIDS = {} \/ cid \in ACCESS_CIDS),
           isManager |-> (cid \in ADMIN_CIDS)]

\* the two tests every /access route starts with: 401 without a session,
\* 403 when the session's CID is not an admin, 0 when the request may go on
Refusal(sid) ==
  IF GetSession(sid) = {} THEN 401
  ELSE IF sessions[sid] \notin ADMIN_CIDS THEN 403
  ELSE 0

\* GET /access
GetAccess(sid) ==
  IF Refusal(sid) # 0
  THEN [status |-> Refusal(sid), allowed |-> {}, admins |-> {}]
  ELSE [status |-> 200, allowed |-> ACCESS_CIDS, admins |-> ADMIN_CIDS]

\* a POST /access route whose body names cid ("" when it names none) and
\* which, when it goes through, leaves the lists as allowed and admins
PostAccess(sid, cid, allowed, admins) ==
  IF Refusal(sid) # 0
  THEN [status |-> Refusal(sid), allowed |-> ACCESS_CIDS, admins |-> ADMIN_CIDS]
  ELSE IF cid = ""
  THEN [status |-> 400, allowed |-> ACCESS_CIDS, admins |-> ADMIN_CIDS]
  ELSE [status |-> 200, allowed |-> allowed, admins |-> admins]

\* POST /access/add that tests the session but not the admin list
PostAccessAdd_AnySession(sid, cid) ==
  IF GetSession(sid) = {}
  THEN [status |-> 401, allowed |-> ACCESS_CIDS, admins |-> ADMIN_CIDS]
  ELSE IF cid = ""
  THEN [status |-> 400, allowed |-> ACCESS_CIDS, admins |-> ADMIN_CIDS]
  ELSE [status |-> 200, allowed |-> ACCESS_CIDS \cup {cid}, admins |-> ADMIN_CIDS]

\* POST /access/add
PostAccessAdd(sid, cid) ==
  PostAccess(sid, cid, ACCESS_CIDS \cup {cid}, ADMIN_CIDS)

\* POST /access/remove
PostAccessRemove(sid, cid) ==
  PostAccess(sid, cid, ACCESS_CIDS \ {cid}, ADMIN_CIDS)

\* POST /access/add-admin
PostAccessAddAdmin(sid, cid) ==
  PostAccess(sid, cid, ACCESS_CIDS, ADMIN_CIDS \cup {cid})

\* POST /access/remove-admin
PostAccessRemoveAdmin(sid, cid) ==
  PostAccess(sid, cid, ACCESS_CIDS, ADMIN_CIDS \ {cid})

\* the sid cookie a request may carry: none, or any sid, issued or not
NoSid == "none"
Cookies == Sids \cup {NoSid}

\* what the body of a POST /access request may name
BodyCids == Cids \cup {""}

\* a /access route has answered res
AccessRoute(res) ==
  /\ ACCESS_CIDS' = res.allowed
  /\ ADMIN_CIDS' = res.admins
  /\ UNCHANGED <<sessions, sids, loggedOut, boardState, last, pulled, nreq,
                 deleted>>
  /\ UNCHANGED replicaVars

AccessAdd(sid, cid) == AccessRoute(PostAccessAdd(sid, cid))

AccessRemove(sid, cid) == AccessRoute(PostAccessRemove(sid, cid))

AccessAddAdmin(sid, cid) == AccessRoute(PostAccessAddAdmin(sid, cid))

AccessRemoveAdmin(sid, cid) == AccessRoute(PostAccessRemoveAdmin(sid, cid))

\* the holder of a socket, by the sid cookie of its handshake
Senders == Cookies

\* what GET /auth/me reports as authenticated and authorized
Admitted_Authorized(c) == AuthMe(c).authenticated /\ AuthMe(c).authorized

\* io.on('connection') registers the handlers for every socket: there is no
\* io.use middleware and no handler reads socket.handshake
Admitted(c) == TRUE

MutationPayloads == AddPayloads \cup DeletePayloads \cup PatchPayloads \cup MovePayloads

\* the socket of c emits a mutation
EmitAs(c) ==
  /\ nreq < MaxAuthReqs
  /\ \E p \in MutationPayloads : \E ts \in Stamp(p.mtime) :
       Handled(p, IF Admitted(c) THEN Handle(boardState, p, ts)
                  ELSE Nothing(boardState))

\* SpecAuth: users log in and out, the access list is edited (the admin list
\* plays no part in what /auth/me reports as authorized), and sockets of users
\* and of strangers emit mutations
NextAuth ==
  \/ \E c \in Senders : EmitAs(c)
  \/ Return
  \/ \E c \in Cids : Login(c)
  \/ \E sid \in Sids : Logout(sid)
  \/ \E sid \in Cookies, cid \in Cids :
       \/ AccessAdd(sid, cid)
       \/ AccessRemove(sid, cid)

SpecAuth == Init /\ [][NextAuth]_vars

\* SpecAccess: the HTTP API alone
NextAccess ==
  \/ \E c \in Cids : Login(c)
  \/ \E sid \in Sids : Logout(sid)
  \/ \E sid \in Cookies, cid \in BodyCids :
       \/ AccessAdd(sid, cid)
       \/ AccessRemove(sid, cid)
       \/ AccessAddAdmin(sid, cid)
       \/ AccessRemoveAdmin(sid, cid)

SpecAccess == Init /\ [][NextAccess]_vars

(***************************************************************************)
(* A card is rendered                                                      *)
(***************************************************************************)
\* SortableCard is rendered with an item whose estimates are e and c
RenderCard(e, c) ==
  /\ cardItem' = [estimate |-> e, centerEstimate |-> c]
  /\ centerEstimateClassName' = ClassNameOf(cardItem')
  /\ UNCHANGED <<authVars, conn, reqQ, inQ, local, synced, early, acted, issued,
                 nops, nreorders, sent, gaps, timeVars>>

\* SpecCard: a card is rendered with every pair of estimates
NextCard == \E e, c \in Estimates : RenderCard(e, c)

SpecCard == Init /\ [][NextCard]_vars

\* diffMinutesHHMM(a, b) is called, and parseHHMM for each argument
DiffCalled(a, b) ==
  /\ hhmmArgs' = <<a, b>>
  /\ hhmmOut' = [ma |-> ParseHHMM(a), mb |-> ParseHHMM(b),
                 diff |-> DiffMinutesHHMM(a, b)]
  /\ UNCHANGED <<authVars, conn, reqQ, inQ, local, synced, early, acted, issued,
                 nops, nreorders, sent, gaps, cardItem,
                 centerEstimateClassName>>

\* SpecTime: a typed text is compared once with another, either way round
NextTime ==
  /\ hhmmArgs = <<>>
  /\ \E t \in TimeTexts, o \in OtherTexts : DiffCalled(t, o) \/ DiffCalled(o, t)

SpecTime == Init /\ [][NextTime]_vars

(***************************************************************************)
(* Properties of the Authority                                             *)
(***************************************************************************)
Range(arr) == {arr[i] : i \in DOMAIN arr}

Count(arr, x) == Cardinality({i \in DOMAIN arr : arr[i] = x})

IsRun(type) == last.req.type = type

\* the handler run in progress applied its request (every applied request is
\* broadcast)
Accepted == last.bcast # {}

Dropped == boardState = last.pre /\ last.bcast = {} /\ last.reply = {}

\* C1: every id listed in a lane of the Authority's board is a key of its
\* items mapping.
C1_LaneIdsHaveItems ==
  \A l \in DOMAIN boardState.lanes :
    Range(boardState.lanes[l]) \subseteq DOMAIN boardState.items

\* C2: no id is listed in two different lanes of the Authority's board.
C2_AtMostOneLane ==
  \A l1, l2 \in DOMAIN boardState.lanes :
    l1 # l2 => Range(boardState.lanes[l1]) \cap Range(boardState.lanes[l2]) = {}

\* C3: an add whose item.id is already a key of items is a no-op: the board
\* (items, lanes, lastUpdated) is unchanged and nothing is broadcast.
C3_AddExistingRejected ==
  (IsRun("item:add") /\ IdOf(last.req.item) \in DOMAIN last.pre.items)
    => Dropped

\* C4: after move(id, A, B, index?) between two different known lanes, id is
\* absent from A, occurs exactly once in B, and items is unchanged, whatever
\* the board was before.
C4_MoveRelocates ==
  (IsRun("lanes:move") /\ LaneKnown(last.pre, last.req.from)
     /\ LaneKnown(last.pre, last.req.to) /\ last.req.from # last.req.to)
    => /\ last.req.id \notin Range(boardState.lanes[last.req.from])
       /\ Count(boardState.lanes[last.req.to], last.req.id) = 1
       /\ boardState.items = last.pre.items

\* C5: a delete of an id that is not a key of items changes nothing and
\* broadcasts nothing.
C5_DeleteUnknownNoop ==
  (IsRun("item:delete") /\ last.req.id \notin DOMAIN last.pre.items)
    => Dropped

\* item has field f with value v
HasField(item, f, v) == f \in DOMAIN Own(item) /\ Own(item)[f] = v

\* the fields of the item stored under id, none when id is not a key
FieldsOf(bs, id) == IF id \in DOMAIN bs.items THEN bs.items[id] ELSE [k \in {} |-> ""]

SameOutside(a, b, names) ==
  /\ (DOMAIN a) \ names = (DOMAIN b) \ names
  /\ \A f \in (DOMAIN a) \ names : a[f] = b[f]

\* C6: an accepted patch(id, fields) leaves every lane, every other item and
\* every field of item id that the patch does not name unchanged.
C6_PatchIsPartialMerge ==
  (IsRun("item:patch") /\ Accepted)
    => /\ boardState.lanes = last.pre.lanes
       /\ SameOutside(boardState.items, last.pre.items, {last.req.id})
       /\ SameOutside(FieldsOf(boardState, last.req.id),
                      FieldsOf(last.pre, last.req.id),
                      DOMAIN last.req.patch.fields)

C6_Witness ==
  /\ IsRun("item:patch") /\ Accepted
  /\ last.req.id \in DOMAIN last.pre.items
  /\ Cardinality(DOMAIN last.pre.items) = 2
  /\ boardState.items # last.pre.items

\* C7: a pull changes nothing at the Authority and broadcasts nothing; the
\* snapshots sent with no mutation applied in between are identical.
C7_PullHasNoEffect ==
  /\ IsRun("board:pull")
       => /\ boardState = last.pre
          /\ last.bcast = {}
          /\ last.reply = {[type |-> "board:state", state |-> last.pre]}
  /\ \A i, j \in DOMAIN pulled : pulled[i] = pulled[j]

C7_Witness ==
  /\ IsRun("board:pull")
  /\ Len(pulled) >= 2
  /\ DOMAIN boardState.items # {}

\* the request names a lane the board does not have
UnknownLane(req) ==
  \/ req.type = "item:add" /\ ~LaneKnown(last.pre, req.lane)
  \/ req.type = "lanes:move"
       /\ (~LaneKnown(last.pre, req.from) \/ ~LaneKnown(last.pre, req.to))

\* the request names an item id that is not on the board
UnknownId(req) ==
  /\ req.type \in {"item:delete", "item:patch", "lanes:move"}
  /\ req.id \notin DOMAIN last.pre.items

MalformedPatch(req) == req.type = "item:patch" /\ req.patch.kind # "object"

\* C10: a request naming an unknown lane or an unknown item id, and a patch
\* whose payload is missing or not an object, is dropped: the board is
\* unchanged and nothing is broadcast.
C10_PreconditionFailuresDropped ==
  (UnknownLane(last.req) \/ UnknownId(last.req) \/ MalformedPatch(last.req))
    => Dropped

\* C12: a patch the Authority processes leaves each field it names at the
\* patch's value, also when an earlier patch had set that field and whatever
\* the timestamps of the two patches are: the patch processed second wins.
C12_SecondPatchWins ==
  (IsRun("item:patch") /\ Accepted)
    => \A f \in DOMAIN last.req.patch.fields :
         /\ f \in DOMAIN FieldsOf(boardState, last.req.id)
         /\ FieldsOf(boardState, last.req.id)[f] = last.req.patch.fields[f]

\* the second of two patches of altitude, stamped by its sender with an
\* older instant than the first
C12_Witness ==
  /\ IsRun("item:patch") /\ Accepted
  /\ last.req.id \in DOMAIN last.pre.items
  /\ "altitude" \in DOMAIN last.pre.items[last.req.id]
  /\ last.pre.items[last.req.id].altitude = "FL390"
  /\ last.req.patch.fields = [altitude |-> "FL350"]
  /\ last.req.mtime # 0
  /\ last.req.mtime < last.pre.lastUpdated
  /\ boardState.items[last.req.id].altitude = "FL350"

\* C14: after an accepted add(item, lane, index?) of an id that is not a key
\* of items, items[id] is the item, id is at position index of the lane when
\* 0 <= index <= length and at the head when index is absent, the other ids
\* of the lane keep their order, and the other lanes are unchanged.
C14_AddInserts ==
  (IsRun("item:add") /\ Accepted /\ IdOf(last.req.item) \notin DOMAIN last.pre.items)
    => LET id == IdOf(last.req.item)
           lane == last.req.lane
           before == last.pre.lanes[lane]
           after == boardState.lanes[lane]
       IN /\ id \in DOMAIN boardState.items
          /\ boardState.items[id] = last.req.item
          /\ last.req.index = {} => (after # <<>> /\ after[1] = id)
          /\ \A i \in last.req.index :
               (0 <= i /\ i <= Len(before)) => (Len(after) > i /\ after[i + 1] = id)
          /\ Filter(after, id) = Filter(before, id)
          /\ \A l \in DOMAIN boardState.lanes :
               l # lane => boardState.lanes[l] = last.pre.lanes[l]
\* C15: a delete(id) of an id that is a key of items is accepted; afterwards
\* id is not a key of items and is listed in no lane, every other item is
\* unchanged and the other ids of every lane keep their order.
C15_DeleteRemoves ==
  (IsRun("item:delete") /\ last.req.id \in DOMAIN last.pre.items)
    => LET id == last.req.id
       IN /\ Accepted
          /\ id \notin DOMAIN boardState.items
          /\ \A l \in DOMAIN boardState.lanes : id \notin Range(boardState.lanes[l])
          /\ SameOutside(boardState.items, last.pre.items, {id})
          /\ DOMAIN boardState.lanes = DOMAIN last.pre.lanes
          /\ \A l \in DOMAIN boardState.lanes :
               boardState.lanes[l] = Filter(last.pre.lanes[l], id)

\* the deleted id shared a lane with another id
C15_Witness ==
  /\ IsRun("item:delete") /\ Accepted
  /\ last.req.id \in DOMAIN last.pre.items
  /\ Cardinality(DOMAIN boardState.items) = 1
  /\ \E l \in DOMAIN last.pre.lanes :
       /\ last.req.id \in Range(last.pre.lanes[l])
       /\ Len(boardState.lanes[l]) = 1
       /\ Len(last.pre.lanes[l]) = 2
\* C16: a move(id, L, L, index) within a known lane L that lists id reorders
\* L: afterwards L lists the same ids, each as often as before and id once,
\* id is at position index, and the other ids keep their order.
C16_MoveInLaneReorders ==
  (IsRun("lanes:move") /\ last.req.from = last.req.to
     /\ LaneKnown(last.pre, last.req.from)
     /\ last.req.id \in Range(last.pre.lanes[last.req.from]))
    => LET id == last.req.id
           before == last.pre.lanes[last.req.from]
           after == boardState.lanes[last.req.from]
       IN /\ Range(after) = Range(before)
          /\ Count(after, id) = 1
          /\ \A i \in last.req.index :
               (0 <= i /\ i < Len(before)) => (Len(after) > i /\ after[i + 1] = id)
          /\ Filter(after, id) = Filter(before, id)
\* C22: every item the Authority stores under key k has id k, and an
\* accepted patch leaves the id and the source of the item as they were.
C22_IdAndSourceImmutable ==
  /\ \A k \in DOMAIN boardState.items : HasField(boardState.items[k], "id", k)
  /\ (IsRun("item:patch") /\ Accepted /\ last.req.id \in DOMAIN last.pre.items)
       => SameOutside(FieldsOf(last.pre, last.req.id),
                      FieldsOf(boardState, last.req.id),
                      (DOMAIN FieldsOf(boardState, last.req.id)) \ {"id", "source"})
\* the id is a key of the Authority's items or listed in one of its lanes
Present(id) ==
  \/ id \in DOMAIN boardState.items
  \/ \E l \in DOMAIN boardState.lanes : id \in Range(boardState.lanes[l])

\* C23: an id whose delete the Authority has applied, with no add of that id
\* accepted since, is neither a key of items nor listed in any lane; no later
\* patch or move brings it back.
C23_DeletionPermanent == \A id \in deleted : ~Present(id)
\* the handler run in progress is for a mutation request
IsMutation == last.req.type \in {"item:add", "item:delete", "item:patch", "lanes:move"}

\* C24: an accepted add, delete, patch or move carrying timestamp t leaves
\* lastUpdated equal to t, for every integer t and for 0 too, and the
\* broadcast carries that value; a rejected one leaves lastUpdated as it was.
C24_LastUpdatedIsRequestTime ==
  IsMutation =>
    IF Accepted
    THEN /\ boardState.lastUpdated = last.req.mtime
         /\ \A m \in last.bcast : m.mtime = boardState.lastUpdated
    ELSE boardState.lastUpdated = last.pre.lastUpdated
\* C25: no operation the Authority applies makes lastUpdated smaller than it
\* was before the operation.
C25_LastUpdatedNeverDecreases ==
  boardState.lastUpdated >= last.pre.lastUpdated
\* C26: whatever requests the Authority has handled, requests naming unknown
\* lanes included, the keys of its lanes mapping are exactly the five
\* configured lane names.
C26_LaneKeysConstant == DOMAIN boardState.lanes = LaneKeys

\* the Authority handles an add or a move that names a lane it does not
\* have, after it accepted a mutation
C26_Witness ==
  /\ IsMutation /\ UnknownLane(last.req)
  /\ last.pre.items # NoItems
  /\ DOMAIN last.pre.lanes = LaneKeys
C31_NoDuplicateInLane ==
  \A l \in DOMAIN boardState.lanes :
    \A id \in Range(boardState.lanes[l]) : Count(boardState.lanes[l], id) = 1

\* C32: every key of the Authority's items mapping is listed in some lane.
C32_EveryItemInALane ==
  \A k \in DOMAIN boardState.items :
    \E l \in DOMAIN boardState.lanes : k \in Range(boardState.lanes[l])

(***************************************************************************)
(* Properties of the Replicas                                              *)
(***************************************************************************)
\* nothing is in flight between the replicas and the Authority
Quiet == \A r \in Replicas : reqQ[r] = <<>> /\ inQ[r] = <<>>

\* every connected replica applied its snapshot before it originated anything
StartedFromSnapshot == \A r \in Replicas : conn[r] => synced[r] /\ ~early[r]

C9_ListenerEqualsAuthority ==
  \A r \in Replicas :
    (conn[r] /\ synced[r] /\ ~acted[r] /\ reqQ[r] = <<>> /\ inQ[r] = <<>>)
      => local[r] = boardState

\* the mutations some replica emitted, each with its sender
Sent ==
  UNION {{[by |-> r, op |-> sent[r][i]] : i \in DOMAIN sent[r]} : r \in Replicas}

IsPatch(e) == e.op.req.type = "item:patch"

\* item has field f and its value is v
HasValue(item, f, v) == f \in DOMAIN Own(item) /\ Own(item)[f] = v

\* e and g are patches by two replicas of different fields of one item, each
\* emitted before its sender had seen the other's values
ConcurrentPatches(e, g) ==
  /\ IsPatch(e) /\ IsPatch(g)
  /\ e.by # g.by
  /\ e.op.req.id = g.op.req.id
  /\ (DOMAIN e.op.req.patch.fields) \cap (DOMAIN g.op.req.patch.fields) = {}
  /\ \A f \in DOMAIN g.op.req.patch.fields :
       ~HasValue(e.op.knew, f, g.op.req.patch.fields[f])
  /\ \A f \in DOMAIN e.op.req.patch.fields :
       ~HasValue(g.op.knew, f, e.op.req.patch.fields[f])

\* no replica emitted another patch or a delete of the item e names
Undisturbed(e, g) ==
  \A h \in Sent :
    (h.op.req.type \in {"item:patch", "item:delete"} /\ h.op.req.id = e.op.req.id)
      => h \in {e, g}

\* board bs holds the values patch e set
Holds(bs, e) ==
  \A f \in DOMAIN e.op.req.patch.fields :
    HasValue(Get(bs.items, e.op.req.id), f, e.op.req.patch.fields[f])

ReflectedIn(bs, e) ==
  LET req == e.op.req
  IN CASE req.type = "item:add" ->
            /\ ReqId(req) \in DOMAIN bs.items
            /\ ReqId(req) \in Range(bs.lanes[req.lane])
       [] req.type = "item:patch" -> Holds(bs, e)
       [] req.type = "item:delete" -> ReqId(req) \notin DOMAIN bs.items
       [] req.type = "lanes:move" -> ReqId(req) \in Range(bs.lanes[req.to])

\* no other mutation of the item e names was emitted
OnlyOpOnItem(e) ==
  \A h \in Sent : ReqId(h.op.req) = ReqId(e.op.req) => h = e

\* C33: an operation a replica originated and the Authority applied stays
\* in the originator's board: once nothing is in flight, the originator's
\* board shows the operation whenever the Authority's does, also when the
\* replica acted between sending its pull and receiving the snapshot.
C33_OwnOperationStays ==
  Quiet
    => \A e \in Sent :
         (conn[e.by] /\ OnlyOpOnItem(e) /\ ReflectedIn(boardState, e))
           => ReflectedIn(local[e.by], e)

C35_LocalUpdateMatchesAuthority ==
  \A r \in Listeners :
    (conn[r] /\ synced[r] /\ ~early[r] /\ reqQ[r] = <<>> /\ inQ[r] = <<>>)
      => /\ local[r].lanes = boardState.lanes
         /\ local[r].items = boardState.items

\* the replica, synced, added a pilot and moved the card to another lane,
\* and the Authority has handled both
C35_Witness ==
  \E r \in Listeners :
    /\ conn[r] /\ synced[r] /\ ~early[r] /\ reqQ[r] = <<>> /\ inQ[r] = <<>>
    /\ Len(sent[r]) = 2
    /\ sent[r][1].req.type = "item:add"
    /\ sent[r][2].req.type = "lanes:move"
    /\ boardState.lanes["New York"] # <<>>

\* C36: no two items of the Authority's board carry the same callsign,
\* letter case aside, also when two replicas add the same pilot
\* concurrently.
C36_CallsignsUnique ==
  \A k1, k2 \in DOMAIN boardState.items :
    (/\ k1 # k2
     /\ "callsign" \in DOMAIN Own(boardState.items[k1])
     /\ "callsign" \in DOMAIN Own(boardState.items[k2]))
      => ToLowerCase(boardState.items[k1].callsign)
           # ToLowerCase(boardState.items[k2].callsign)

\* C19: a replica that lost its connection and reconnected has, once it has
\* applied the snapshot it pulled and nothing is in flight, the Authority's
\* lanes and items, whatever it held and whatever it missed.
C19_ReconnectResyncs ==
  \A r \in Replicas :
    (conn[r] /\ gaps[r] > 0 /\ synced[r] /\ reqQ[r] = <<>> /\ inQ[r] = <<>>)
      => /\ local[r].lanes = boardState.lanes
         /\ local[r].items = boardState.items

\* C20: the board of every mounted replica keeps the Authority's
\* invariants after each local action and each applied event: every id
\* listed in a lane is a key of items, and no id is listed in two lanes.
C20_ReplicaBoardsWellFormed ==
  \A r \in Replicas :
    /\ \A l \in DOMAIN local[r].lanes :
         Range(local[r].lanes[l]) \subseteq DOMAIN local[r].items
    /\ \A l1, l2 \in DOMAIN local[r].lanes :
         l1 # l2 => Range(local[r].lanes[l1]) \cap Range(local[r].lanes[l2]) = {}

(***************************************************************************)
(* Properties of the traffic between the Authority and the Replicas        *)
(***************************************************************************)
\* the applied-broadcast that carries the operation of request req, stamped ts
ApplyOf(req, ts) ==
  CASE req.type = "item:add" ->
         [type |-> "item:add:apply", item |-> req.item, lane |-> req.lane,
          index |-> req.index, mtime |-> ts]
    [] req.type = "item:delete" ->
         [type |-> "item:delete:apply", id |-> req.id, mtime |-> ts]
    [] req.type = "item:patch" ->
         [type |-> "item:patch:apply", id |-> req.id, patch |-> req.patch,
          mtime |-> ts]
    [] req.type = "lanes:move" ->
         [type |-> "lanes:move:apply", id |-> req.id, from |-> req.from,
          to |-> req.to, index |-> req.index, mtime |-> ts]

ApplyTypes ==
  {"item:add:apply", "item:delete:apply", "item:patch:apply", "lanes:move:apply"}

\* in this step the Authority handles the oldest pending event of replica r
ServedFrom(r) == reqQ[r] # <<>> /\ reqQ'[r] = Tail(reqQ[r])

\* in this step the Authority applies a mutation sent by replica r: the
\* event is a mutation and the board changes or something is sent
AppliedFrom(r) ==
  /\ ServedFrom(r)
  /\ Head(reqQ[r]).type # "board:pull"
  /\ (boardState' # boardState \/ inQ' # inQ)

\* C11: when the Authority applies a mutation sent by a replica, every other
\* connected replica is sent exactly one applied-broadcast carrying that
\* operation and the board's new timestamp, a replica that is not connected
\* is sent nothing, and the sender is sent nothing.
C11_BroadcastToOthers ==
  [][\A r \in Replicas :
       AppliedFrom(r)
         => /\ inQ'[r] = inQ[r]
            /\ \A t \in Replicas \ {r} :
                 inQ'[t] = IF conn[t]
                           THEN Append(inQ[t], ApplyOf(Head(reqQ[r]),
                                                       boardState'.lastUpdated))
                           ELSE inQ[t]]_vars

C11_Witness ==
  \E r, t \in Replicas :
    /\ r # t /\ conn[r] /\ conn[t] /\ acted[r]
    /\ inQ[r] = <<>> /\ reqQ[r] = <<>>
    /\ Len(inQ[t]) = 1 /\ inQ[t][1].type \in ApplyTypes

MutationTypes == {"item:add", "item:delete", "item:patch", "lanes:move"}

\* in this step a user action changes replica r's board: the board changes
\* though r neither connects nor receives an event
LocalChange(r) ==
  /\ local'[r] # local[r]
  /\ inQ'[r] = inQ[r]
  /\ conn'[r] = conn[r]

\* C17: every user action that changes a replica's board (add, patch,
\* delete, move to another lane, reordering inside a lane) emits exactly one
\* mutation request to the Authority.
C17_LocalChangesAreSent ==
  [][\A r \in Replicas :
       LocalChange(r)
         => /\ Len(reqQ'[r]) = Len(reqQ[r]) + 1
            /\ SubSeq(reqQ'[r], 1, Len(reqQ[r])) = reqQ[r]
            /\ reqQ'[r][Len(reqQ'[r])].type \in MutationTypes]_vars

\* e and g are a move, delete or patch of one item by two replicas, each of
\* which held the item when it emitted
Overlapping(e, g) ==
  /\ e.by # g.by
  /\ e.op.req.type \in {"lanes:move", "item:delete", "item:patch"}
  /\ g.op.req.type \in {"lanes:move", "item:delete", "item:patch"}
  /\ e.op.req.id = g.op.req.id
  /\ Truthy(e.op.knew) /\ Truthy(g.op.knew)

\* C27: the Authority applies the operations two replicas emit on one item
\* one after the other, each to the board the one before left, and once both
\* have arrived its board still has an item for every id in a lane and no id
\* in two lanes.
C27_RaceKeepsBoardWellFormed ==
  /\ [][\A r \in Replicas :
          AppliedFrom(r)
            => \E ts \in Stamp(Head(reqQ[r]).mtime) :
                 boardState' = Handle(boardState, Head(reqQ[r]), ts).bs]_vars
  /\ [](\A e, g \in Sent :
          (Overlapping(e, g) /\ reqQ[e.by] = <<>> /\ reqQ[g.by] = <<>>)
            => C1_LaneIdsHaveItems /\ C2_AtMostOneLane)

\* in this step replica r applies the snapshot at the head of its queue
SnapshotApplied(r) ==
  /\ conn[r] /\ conn'[r]
  /\ inQ[r] # <<>>
  /\ Head(inQ[r]).type = "board:state"
  /\ inQ'[r] = Tail(inQ[r])

\* C18: a replica that applies a snapshot replaces its whole board: items
\* and lastUpdated are the snapshot's, each lane is the snapshot's lane
\* without the ids that are not keys of the snapshot's items, in the same
\* order, and so no lane of the replica lists an id that has no item.
C18_SnapshotReplaces ==
  [][\A r \in Replicas :
       SnapshotApplied(r)
         => LET snap == Head(inQ[r]).state
                now == local'[r]
            IN /\ now.items = snap.items
               /\ now.lastUpdated = snap.lastUpdated
               /\ DOMAIN now.lanes = DOMAIN snap.lanes
               /\ \A l \in DOMAIN snap.lanes :
                    now.lanes[l] =
                      SelectSeq(snap.lanes[l], LAMBDA id : id \in DOMAIN snap.items)
               /\ \A l \in DOMAIN now.lanes :
                    Range(now.lanes[l]) \subseteq DOMAIN now.items]_vars

\* in this step replica r applies the broadcast at the head of its queue
BroadcastApplied(r) ==
  /\ conn[r] /\ conn'[r]
  /\ inQ[r] # <<>>
  /\ Head(inQ[r]).type \in {"item:delete:apply", "item:patch:apply", "lanes:move:apply"}
  /\ inQ'[r] = Tail(inQ[r])

\* C21: a delete, patch or move broadcast that names an id that is not a key
\* of the receiving replica's items leaves the replica's board (lanes, items
\* and lastUpdated) unchanged.
C21_UnknownIdBroadcastDropped ==
  [][\A r \in Replicas :
       (BroadcastApplied(r) /\ Head(inQ[r]).id \notin DOMAIN local[r].items)
         => local'[r] = local[r]]_vars

\* the applied-broadcasts of queue q, in order
Broadcasts(q) == SelectSeq(q, LAMBDA m : m.type \in ApplyTypes)

\* in this step the Authority applies an operation of a socket other than t
\* whose broadcast is m
AppliedNow(t, m) ==
  \/ \E s \in Replicas \ {t} :
       AppliedFrom(s) /\ m = ApplyOf(Head(reqQ[s]), boardState'.lastUpdated)
  \/ /\ issued' # issued
     /\ m.type = "item:add:apply"
     /\ IdOf(m.item) \in issued' \ issued
     /\ m.mtime = boardState'.lastUpdated
  \/ last' # last /\ m \in last'.bcast

\* C28: a broadcast is queued for a replica only in the step in which the
\* Authority applies the operation, once, and only if the replica is
\* connected then; a queued broadcast leaves the queue when the replica
\* receives it or when the replica loses its connection, and nothing is
\* queued for a replica that is not connected, so a replica that reconnects
\* is sent none of the broadcasts it missed.
C28_BroadcastAtMostOnce ==
  [][\A t \in Replicas :
       /\ ~conn'[t] => Broadcasts(inQ'[t]) = <<>>
       /\ Broadcasts(inQ'[t]) # Broadcasts(inQ[t])
            => \/ inQ[t] # <<>> /\ inQ'[t] = Tail(inQ[t])
               \/ ~conn'[t]
               \/ /\ conn[t] /\ inQ'[t] # <<>>
                  /\ inQ'[t] = Append(inQ[t], inQ'[t][Len(inQ'[t])])
                  /\ AppliedNow(t, inQ'[t][Len(inQ'[t])])]_vars

\* the listening replica missed an operation while it was not connected and
\* has reconnected: the one event queued for it is a snapshot
C28_Witness ==
  \E t \in Listeners, s \in Replicas \ Listeners :
    /\ conn[t] /\ gaps[t] = 1
    /\ Len(inQ[t]) = 1 /\ inQ[t][1].type = "board:state"
    /\ sent[s] # <<>> /\ reqQ[s] = <<>>
    /\ local[t].items # NoItems
    /\ local[t].items # boardState.items

(***************************************************************************)
(* Properties of the card                                                  *)
(***************************************************************************)
\* s is four digits that name an hour up to 23 and a minute up to 59
ValidHHMM(s) ==
  /\ Len(s) = 4
  /\ \A i \in 1..4 : s[i] \in DOMAIN DigitValue
  /\ 10 * DigitValue[s[1]] + DigitValue[s[2]] <= 23
  /\ 10 * DigitValue[s[3]] + DigitValue[s[4]] <= 59

\* the minute of the day a valid HHMM names
ClockMinutes(s) ==
  60 * (10 * DigitValue[s[1]] + DigitValue[s[2]])
    + 10 * DigitValue[s[3]] + DigitValue[s[4]]

\* how far apart two times of day are, round the clock
MinutesApart(a, b) ==
  LET d == Abs(ClockMinutes(a) - ClockMinutes(b))
  IN IF d > 720 THEN 1440 - d ELSE d

\* C30: for a valid pilot estimate and a valid center estimate the display
\* is marked as a match exactly when the two times are within 3 minutes of
\* each other and as a mismatch exactly when they are more than 3 minutes
\* apart, for pairs on either side of midnight too (2359 and 0001 are 2
\* minutes apart).
C30_MatchWithinThreeMinutes ==
  (ValidHHMM(cardItem.estimate) /\ ValidHHMM(cardItem.centerEstimate))
    => LET apart == MinutesApart(cardItem.estimate, cardItem.centerEstimate)
       IN /\ ("center-estimate--match" \in centerEstimateClassName) <=> (apart <= 3)
          /\ ("center-estimate--mismatch" \in centerEstimateClassName) <=> (apart > 3)


\* ------------------------------------------------------------------------
\* Properties of the HTTP API (SpecAccess)
\* ------------------------------------------------------------------------

Lists == <<ACCESS_CIDS, ADMIN_CIDS>>

\* what the four POST /access routes answer to a request
PostAccessAnswers(sid, cid) ==
  {PostAccessAdd(sid, cid), PostAccessRemove(sid, cid),
   PostAccessAddAdmin(sid, cid), PostAccessRemoveAdmin(sid, cid)}

\* the step is a POST /access request of a live session of an admin
ByAdminRequest ==
  \E sid \in DOMAIN sessions, cid \in Cids :
    /\ sessions[sid] \in ADMIN_CIDS
    /\ \/ AccessAdd(sid, cid)
       \/ AccessRemove(sid, cid)
       \/ AccessAddAdmin(sid, cid)
       \/ AccessRemoveAdmin(sid, cid)

\* the step is the login of a user while the access list is empty
ByBootstrap ==
  /\ ACCESS_CIDS = {}
  /\ ADMIN_CIDS' = ADMIN_CIDS
  /\ \E c \in Cids : Login(c) /\ ACCESS_CIDS' = {c}

\* a request without a valid session is answered 401, one of a session of a
\* non-admin 403, and neither changes a list
RefusalsLeaveLists ==
  \A sid \in Cookies, cid \in BodyCids :
    \A res \in PostAccessAnswers(sid, cid) \cup {GetAccess(sid)} :
      /\ sid \notin DOMAIN sessions => res.status = 401
      /\ (sid \in DOMAIN sessions /\ sessions[sid] \notin ADMIN_CIDS)
           => res.status = 403
      /\ res.status \in {401, 403} =>
           \A r \in PostAccessAnswers(sid, cid) :
             <<r.allowed, r.admins>> = Lists

\* C37 as stated: the access list and the admin list change only in a
\* /access request of a live session whose CID is an admin at the time,
\* requests without a session (401) and of non-admins (403) change neither,
\* and no other event adds a CID to either list
C37_ListsChangeOnlyByAdmins ==
  /\ [][Lists' # Lists => ByAdminRequest]_vars
  /\ []RefusalsLeaveLists

\* C37 amended: as above, except that the login of a user while the access
\* list is empty puts that user on the access list
C37_ListsChangeByAdminsOrBootstrap ==
  /\ [][Lists' # Lists => ByAdminRequest \/ ByBootstrap]_vars
  /\ []RefusalsLeaveLists

\* a second admin has been named while a non-admin holds a session that the
\* routes refuse with 403, and some cookie names no session (401)
C37_Witness ==
  /\ ADMIN_CIDS # DEFAULT_ADMIN_CIDS
  /\ ACCESS_CIDS # {}
  /\ \E sid \in DOMAIN sessions : PostAccessAdd(sid, "c1").status = 403
  /\ \E sid \in Sids : PostAccessAdd(sid, "c1").status = 401


\* every endpoint that reads the session answers 401 to the cookie sid
Rejected(sid) ==
  /\ AuthMe(sid).status = 401
  /\ ~AuthMe(sid).authenticated
  /\ GetAccess(sid).status = 401
  /\ \A cid \in BodyCids :
       \A res \in PostAccessAnswers(sid, cid) : res.status = 401

FourDigitMinutes(hhmm) ==
  LET t == Trim(hhmm)
  IN IF Len(t) = 4 /\ \A i \in 1..4 : t[i] \in DOMAIN DigitValue
     THEN LET hh == 10 * DigitValue[t[1]] + DigitValue[t[2]]
              mm == 10 * DigitValue[t[3]] + DigitValue[t[4]]
          IN IF hh <= 23 /\ mm <= 59 THEN {hh * 60 + mm} ELSE {}
     ELSE {}

\* diffMinutesHHMM is null when either argument is rejected and the
\* difference of what parseHHMM returned otherwise
DiffIsDifference ==
  hhmmArgs # <<>> =>
    /\ (hhmmOut.ma = {} \/ hhmmOut.mb = {}) => hhmmOut.diff = {}
    /\ (hhmmOut.ma # {} /\ hhmmOut.mb # {}) =>
         hhmmOut.diff = {x - y : <<x, y>> \in hhmmOut.ma \X hhmmOut.mb}

\* C39: parseHHMM returns hh*60+mm, in 0..1439, exactly for a text that
\* trimmed is four decimal digits with hh in 00..23 and mm in 00..59, and
\* null for every other text; diffMinutesHHMM(a, b) is null when either
\* argument is rejected and parseHHMM(a) - parseHHMM(b) otherwise
C39_ParseHHMMFourDigits ==
  /\ hhmmArgs # <<>> =>
       /\ hhmmOut.ma = FourDigitMinutes(hhmmArgs[1])
       /\ hhmmOut.mb = FourDigitMinutes(hhmmArgs[2])
       /\ hhmmOut.ma \subseteq 0..1439
       /\ hhmmOut.mb \subseteq 0..1439
  /\ DiffIsDifference

=============================================================================
